---------------------------- MODULE Spec2Model ----------------------------
(***************************************************************************)
(* Docxtract: the document-processing job (documents/tasks.py), the        *)
(* chunker and the merge of extracted results (documents/services.py).     *)
(*                                                                         *)
(* The specifications share the variables below:                           *)
(*   Spec        one processing job driven by one chain of                 *)
(*               process_document_task attempts (the first attempt and its *)
(*               automatic retries);                                       *)
(*   SpecChunk   chunk_document applied to a bounded text;                 *)
(*   SpecChunkAny  chunk_document with overlap >= max_chunk_size;          *)
(*   SpecAccum   the chunk loop of process_document_chunked fed with       *)
(*               arbitrary LLM outputs;                                    *)
(*   SpecMerge   _deep_merge applied to bounded structured values;         *)
(*   SpecLive    Spec with the worker's hard time limit and the fairness   *)
(*               of the worker and of the LLM calls;                       *)
(*   SpecRetry   the job with the external reset job_retry;                *)
(*   SpecBatch   two jobs dispatched by process_batch_task;                *)
(*   SpecSchema  schema_definition_to_json_schema on well-formed trees;    *)
(*   SpecSuggest one schema suggestion driven by suggest_schema_task.      *)
(***************************************************************************)
EXTENDS Integers, Sequences, FiniteSets, TLC

VARIABLES
    job,        \* ProcessingJob rows: job id -> persisted fields
    task,       \* process_document_task messages/executions: task id -> state
    doc,        \* Document rows: job id -> [len, nchunks] of job.document.raw_text
    schema,     \* ExtractionSchema rows: job id -> index of schema_definition
    text,           \* chunk_document: argument text
    max_chunk_size, \* chunk_document: argument max_chunk_size
    overlap,        \* chunk_document: argument overlap
    cpc,            \* chunk_document: position in the function
    paragraphs,     \* chunk_document: local paragraphs
    chunks,         \* chunk_document: local chunks (the result once cpc = "done")
    current_chunk,  \* chunk_document: local current_chunk (list of strings)
    current_size,   \* chunk_document: local current_size
    pidx,           \* chunk_document: index of the paragraph the loop is at
    fs,             \* _fixed_size_chunk frame: its text, start and chunks
    merge_call,     \* _deep_merge: the arguments of a call and what it returned
    suggestion,     \* the SchemaSuggestion row
    stask,          \* the suggest_schema_task message/execution
    translation     \* schema_definition_to_json_schema: argument and result

jobVars   == <<job, task, doc, schema>>
chunkVars == <<text, max_chunk_size, overlap, cpc, paragraphs, chunks,
               current_chunk, current_size, pidx, fs>>
vars      == <<job, task, doc, schema, text, max_chunk_size, overlap, cpc,
               paragraphs, chunks, current_chunk, current_size, pidx, fs,
               merge_call, suggestion, stask, translation>>
suggestVars == <<suggestion, stask>>
\* What a step of the processing job, of the chunker, of _deep_merge, of the
\* schema suggestion and of the schema translation leaves alone.
notJobVars     == <<chunkVars, merge_call, suggestVars, translation>>
notChunkVars   == <<jobVars, merge_call, suggestVars, translation>>
notMergeVars   == <<jobVars, chunkVars, suggestVars, translation>>
notSuggestVars == <<jobVars, chunkVars, merge_call, translation>>
notTranslationVars == <<jobVars, chunkVars, merge_call, suggestVars>>

Min(a, b) == IF a < b THEN a ELSE b

Max(a, b) == IF a > b THEN a ELSE b

(***************************************************************************)
(* Structured (JSON) values.  Every value is a record [k, v]: k is the     *)
(* kind, v the payload.  A mapping keeps its insertion order, as a Python  *)
(* dict does: its payload is a sequence of <<key, value>> pairs with       *)
(* pairwise different keys.  Numbers are integers.                         *)
(***************************************************************************)
Null == [k |-> "null", v |-> 0]

Str(s) == [k |-> "str", v |-> s]

Num(n) == [k |-> "num", v |-> n]

Bool(b) == [k |-> "bool", v |-> b]

List(s) == [k |-> "list", v |-> s]

Map(s) == [k |-> "map", v |-> s]

EmptyMap == Map(<<>>)

IsMap(x) == x.k = "map"

IsList(x) == x.k = "list"

\* The keys of a mapping, as a set, and the value stored under a key.
KeysOf(m) == {m.v[i][1] : i \in 1..Len(m.v)}

KeyPos(m, key) == CHOOSE i \in 1..Len(m.v) : m.v[i][1] = key

ValueAt(m, key) == m.v[KeyPos(m, key)][2]

\* merged[key] = val on a dict: a present key keeps its position, a new key
\* is appended.
DictSet(m, key, val) ==
    IF key \in KeysOf(m)
    THEN Map([m.v EXCEPT ![KeyPos(m, key)] = <<key, val>>])
    ELSE Map(Append(m.v, <<key, val>>))

\* The alphabetical order of the keys the model uses (json.dumps sort_keys).
KeyOrder == <<"w", "x", "y", "z">>

KeyRank(key) == CHOOSE i \in 1..Len(KeyOrder) : KeyOrder[i] = key

RECURSIVE InsertSorted(_, _)
InsertSorted(pair, s) ==
    IF s = <<>> THEN <<pair>>
    ELSE IF KeyRank(pair[1]) < KeyRank(Head(s)[1]) THEN <<pair>> \o s
    ELSE <<Head(s)>> \o InsertSorted(pair, Tail(s))

RECURSIVE SortPairs(_)
SortPairs(s) ==
    IF s = <<>> THEN <<>> ELSE InsertSorted(Head(s), SortPairs(Tail(s)))

\* A serialisation that keeps the entries of a mapping in insertion order.
JsonDumpsAlt(x) == x

\* json.dumps(item, sort_keys=True, ensure_ascii=False): the serialisation is
\* represented by the value with the entries of every mapping, at every depth,
\* put in key order; two values serialise to the same text iff these agree.
RECURSIVE JsonDumpsSorted(_)
JsonDumpsSorted(x) ==
    IF IsMap(x)
    THEN Map(SortPairs([i \in 1..Len(x.v) |->
                           <<x.v[i][1], JsonDumpsSorted(x.v[i][2])>>]))
    ELSE IF IsList(x)
    THEN List([i \in 1..Len(x.v) |-> JsonDumpsSorted(x.v[i])])
    ELSE x

\* Only None counts as empty.
InEmptyTupleAlt(x) == x.k = "null"

\* x in (None, "", 0, False), with Python's ==: a dict or a list equals none
\* of the four.
InEmptyTuple(x) ==
    \/ x.k = "null"
    \/ x.k = "str" /\ x.v = ""
    \/ x.k = "num" /\ x.v = 0
    \/ x.k = "bool" /\ x.v = FALSE

\* Python truthiness, for `accumulated_result or {}`.
Falsy(x) ==
    \/ InEmptyTuple(x)
    \/ x.k \in {"list", "map"} /\ x.v = <<>>

\* A concatenation that removes nothing.
DedupLoopAlt(items, seen, combined) == items

\* The list branch of _deep_merge: the loop `for item in base + update`,
\* with `seen` the serialisations met so far.
RECURSIVE DedupLoop(_, _, _)
DedupLoop(items, seen, combined) ==
    IF items = <<>> THEN combined
    ELSE LET key == JsonDumpsSorted(Head(items))
         IN  IF key \notin seen
             THEN DedupLoop(Tail(items), seen \cup {key},
                            Append(combined, Head(items)))
             ELSE DedupLoop(Tail(items), seen, combined)

\* dict.update: the value of the update replaces the value of a shared key.
RECURSIVE MergeDictLoopAlt(_, _)
MergeDictLoopAlt(merged, items) ==
    IF items = <<>> THEN merged
    ELSE MergeDictLoopAlt(DictSet(merged, Head(items)[1], Head(items)[2]),
                          Tail(items))

RECURSIVE _deep_merge(_, _)
RECURSIVE MergeDictLoop(_, _)
\* The dict branch of _deep_merge: the loop over update.items().
MergeDictLoop(merged, items) ==
    IF items = <<>> THEN merged
    ELSE LET key == Head(items)[1]
             update_val == Head(items)[2]
         IN  IF key \in KeysOf(merged)
             THEN MergeDictLoop(
                      DictSet(merged, key,
                              _deep_merge(ValueAt(merged, key), update_val)),
                      Tail(items))
             ELSE MergeDictLoop(DictSet(merged, key, update_val), Tail(items))

\* A merge that lets the update win on a shared key, as dict.update does.
DeepMergeAlt(base, update) ==
    IF base = Null THEN update
    ELSE IF update = Null THEN base
    ELSE IF IsMap(base) /\ IsMap(update)
    THEN LET Upd(m, i) == DictSet(m, update.v[i][1], update.v[i][2])
             F[i \in 0..Len(update.v)] ==
                 IF i = 0 THEN base ELSE Upd(F[i - 1], i)
         IN  F[Len(update.v)]
    ELSE update

\* A merge that tests `not base` and `not update` where the code tests
\* `is None`.
DeepMergeFalsyAlt(base, update) ==
    IF Falsy(base) THEN update
    ELSE IF Falsy(update) THEN base
    ELSE IF IsMap(base) /\ IsMap(update)
    THEN MergeDictLoop(base, update.v)
    ELSE IF IsList(base) /\ IsList(update)
    THEN List(DedupLoop(base.v \o update.v, {}, <<>>))
    ELSE base

\* services.py 376-419.
_deep_merge(base, update) ==
    IF base = Null THEN update
    ELSE IF update = Null THEN base
    ELSE IF IsMap(base) /\ IsMap(update)
    THEN MergeDictLoop(base, update.v)
    ELSE IF IsList(base) /\ IsList(update)
    THEN List(DedupLoop(base.v \o update.v, {}, <<>>))
    ELSE IF InEmptyTuple(base) /\ ~InEmptyTuple(update) THEN update
    ELSE base

(***************************************************************************)
(* Schema definitions (ExtractionSchema.schema_definition) and the part of *)
(* schema_definition_to_json_schema that decides whether it raises.  A     *)
(* field node is a record holding the keys the dict holds.                 *)
(***************************************************************************)
Get(d, key, default) == IF key \in DOMAIN d THEN d[key] ELSE default

\* A JSON value that is not an object (a string, a number) stands in a schema
\* as the record [scalar |-> its text].
IsDict(x) == "scalar" \notin DOMAIN x

\* The schema definitions a job may carry: two well-formed ones, one with a
\* field node without a name, one whose `items` is a string, not a node.
SchemaDefinitions ==
    << [fields |-> << [name |-> "title", type |-> "string",
                       required |-> TRUE] >>],
       [fields |-> << [name |-> "rows", type |-> "array",
                       items |-> [type |-> "object",
                                  fields |-> << [name |-> "id",
                                                 type |-> "integer",
                                                 required |-> TRUE],
                                                [name |-> "note",
                                                 type |-> "string"] >>]] >>],
       [fields |-> << [type |-> "string", description |-> "no name"] >>],
       [fields |-> << [name |-> "tags", type |-> "array",
                       items |-> [scalar |-> "string"]] >>] >>

WellFormedSchemas == {1, 2}

\* The exception _field_to_schema(field) raises, "" when it raises none.
RECURSIVE FieldRaises(_)
RECURSIVE SubFieldsRaise(_)
SubFieldsRaise(sub_fields) ==
    IF sub_fields = <<>> THEN ""
    ELSE LET sub_field == Head(sub_fields)
             inner == FieldRaises(sub_field)
         IN  IF inner # "" THEN inner
             ELSE IF "name" \notin DOMAIN sub_field THEN "KeyError: 'name'"
             ELSE SubFieldsRaise(Tail(sub_fields))

FieldRaises(field) ==
    LET field_type == Get(field, "type", "string")
    IN  IF field_type = "object"
        THEN SubFieldsRaise(Get(field, "fields", <<>>))
        ELSE IF field_type = "array"
        THEN LET items_def == Get(field, "items", [type |-> "string"])
             IN  IF ~IsDict(items_def)
                 THEN "AttributeError: no attribute 'get'"
                 ELSE IF Get(items_def, "type", "") = "object"
                 THEN SubFieldsRaise(Get(items_def, "fields", <<>>))
                 ELSE ""
        ELSE ""

\* The exception schema_definition_to_json_schema raises, "" when none.
SchemaRaises(schema_definition) ==
    SubFieldsRaise(Get(schema_definition, "fields", <<>>))

\* A dict with one more key: d[key] = val.
With(d, key, val) ==
    [k \in DOMAIN d \cup {key} |-> IF k = key THEN val ELSE d[k]]

\* properties[name] = field_schema on a dict kept as a sequence of
\* <<name, schema>> pairs in insertion order: an existing name keeps its
\* place and takes the new schema.
SetProperty(properties, name, field_schema) ==
    IF \E i \in 1..Len(properties) : properties[i][1] = name
    THEN [i \in 1..Len(properties) |->
             IF properties[i][1] = name THEN <<name, field_schema>>
             ELSE properties[i]]
    ELSE Append(properties, <<name, field_schema>>)

\* A loop that lists every child that carries a `required` key.
RequiredLoopAlt(sub_fields) ==
    LET Names[i \in 0..Len(sub_fields)] ==
            IF i = 0 THEN <<>>
            ELSE IF "required" \in DOMAIN sub_fields[i]
            THEN Append(Names[i - 1], sub_fields[i].name)
            ELSE Names[i - 1]
    IN  Names[Len(sub_fields)]

\* services.py 59-60, 76-77, 93-94: `if sub_field.get("required"):
\* required.append(sub_field["name"])`, over the children in order.
RequiredLoop(sub_fields) ==
    LET Names[i \in 0..Len(sub_fields)] ==
            IF i = 0 THEN <<>>
            ELSE IF Get(sub_fields[i], "required", FALSE) = TRUE
            THEN Append(Names[i - 1], sub_fields[i].name)
            ELSE Names[i - 1]
    IN  Names[Len(sub_fields)]

RECURSIVE _field_to_schema(_)
RECURSIVE PropertiesLoop(_, _)
\* services.py 57-58, 72-75, 91-92: properties[sub_field["name"]] =
\* _field_to_schema(sub_field), over the children in order.
PropertiesLoop(properties, sub_fields) ==
    IF sub_fields = <<>> THEN properties
    ELSE PropertiesLoop(
             SetProperty(properties, Head(sub_fields).name,
                         _field_to_schema(Head(sub_fields))),
             Tail(sub_fields))

\* services.py 54-63, 69-79, 96-101: the description of an object: its
\* properties, and its required list when that list is not empty.
ObjectSchema(sub_fields) ==
    LET properties == PropertiesLoop(<<>>, sub_fields)
        required == RequiredLoop(sub_fields)
        object_schema == [type |-> "object", properties |-> properties]
    IN  IF required # <<>> THEN With(object_schema, "required", required)
        ELSE object_schema

\* services.py 46-85.
_field_to_schema(field) ==
    LET field_type == Get(field, "type", "string")
        typed ==
            IF field_type \in {"string", "number", "integer", "boolean"}
            THEN [type |-> field_type]
            ELSE IF field_type = "object"
            THEN ObjectSchema(Get(field, "fields", <<>>))
            ELSE IF field_type = "array"
            THEN LET items_def == Get(field, "items", [type |-> "string"])
                 IN  IF Get(items_def, "type", "") = "object"
                     THEN [type |-> "array",
                           items |-> ObjectSchema(Get(items_def, "fields",
                                                      <<>>))]
                     ELSE [type |-> "array",
                           items |-> [type |-> Get(items_def, "type",
                                                   "string")]]
            ELSE [x \in {} |-> x]
    IN  IF Get(field, "description", "") # ""
        THEN With(typed, "description", field.description)
        ELSE typed

\* services.py 30-103.
schema_definition_to_json_schema(schema_definition) ==
    ObjectSchema(Get(schema_definition, "fields", <<>>))

(***************************************************************************)
(* The processing job: process_document_task (documents/tasks.py).         *)
(***************************************************************************)
max_retries == 10

CHUNK_THRESHOLD == 50000

\* Bounds of the model.
MaxChunks == 3

Jobs == {"j1"}

Tasks == {"t1"}

\* The failures the LLM-calling capability raises (str(exc)).
LLMErrors == {"rate limit", "timeout"}

\* The outputs an LLM call returns in Spec (mappings).
SmallOutputs ==
    { Map(<< <<"x", List(<<Str("a"), Str("b")>>)>> >>),
      Map(<< <<"x", List(<<Str("b"), Str("c")>>)>>, <<"y", Num(1)>> >>) }

\* Document.raw_text, by its length and the number of chunks chunk_document
\* (default sizes) returns for it.
Documents ==
    {[len |-> 0, nchunks |-> 0]}
        \cup {[len |-> n, nchunks |-> 1] : n \in {10000, CHUNK_THRESHOLD}}
        \cup {[len |-> n, nchunks |-> c] :
                 n \in {CHUNK_THRESHOLD + 1, 90000}, c \in 1..MaxChunks}

\* A threshold that a text of exactly CHUNK_THRESHOLD characters reaches.
should_chunkAlt(document_text) == document_text.len >= CHUNK_THRESHOLD

\* services.py 174-176: len(text) > threshold.
should_chunk(document_text) == document_text.len > CHUNK_THRESHOLD

\* The backoff without its 600 s cap.
CountdownAlt(retries) == 2 ^ retries * 30

\* tasks.py 121: countdown = min(2**self.request.retries * 30, 600)
Countdown(retries) == Min(2 ^ retries * 30, 600)

NewJob ==
    [status |-> "pending", result_data |-> Null, error_message |-> "",
     retry_count |-> 0, celery_task_id |-> "", is_chunked |-> FALSE,
     total_chunks |-> 0, processed_chunks |-> 0, chunk_results |-> Null,
     completed_at |-> FALSE]

\* A task message as .delay(job_id) sends it.  calls, delays, failed, exc,
\* outputs, history, prompts and lost record what the execution did: the
\* number of LLM calls of the current attempt, the countdowns of the retries
\* scheduled so far, the number of failed attempts, the last exception, the
\* LLM outputs of the current attempt with the accumulated result after each
\* chunk, what each LLM call of the current attempt was given, and the
\* accumulated result the last failed attempt had reached.  progress records
\* the arguments <<chunk_idx, total>> of the calls of on_chunk_complete in
\* the current attempt.
NewTask(j) ==
    [job |-> j, pc |-> "queued", retries |-> 0, i |-> 0,
     accumulated_result |-> Null, result |-> Null,
     calls |-> 0, delays |-> <<>>, failed |-> 0, exc |-> "",
     outputs |-> <<>>, history |-> <<>>, prompts |-> <<>>, lost |-> Null,
     progress |-> <<>>]

JobOf(t) == task[t].job

use_chunking(t) == should_chunk(doc[JobOf(t)])

SchemaOf(t) == SchemaDefinitions[schema[JobOf(t)]]

\* tasks.py 28-39: load the job, mark it processing.  A retry that celery
\* scheduled runs the task again from its first line.
TaskStartable(t) == task[t].pc \in {"queued", "retry"}

TaskStart(t) ==
    /\ TaskStartable(t)
    /\ job' = [job EXCEPT ![JobOf(t)].status = "processing",
                          ![JobOf(t)].celery_task_id = t]
    /\ task' = [task EXCEPT ![t].pc = "started", ![t].i = 0,
                            ![t].accumulated_result = Null,
                            ![t].result = Null, ![t].calls = 0,
                            ![t].outputs = <<>>, ![t].history = <<>>,
                            ![t].prompts = <<>>, ![t].progress = <<>>]
    /\ UNCHANGED <<doc, schema>>

\* tasks.py 103: the branch the except block takes.
ShouldRetry(retries) == retries < max_retries

\* A task that re-sends itself after every failure, the last one included.
AfterFailureAlt(retries) == "retry"

\* tasks.py 122 / 139: what the task does after the except block saved the
\* job: self.retry re-sends it ("retry"), or it returns ("done").
AfterFailure(retries) == IF ShouldRetry(retries) THEN "retry" ELSE "done"

\* tasks.py 99-139: the except branch, for the exception whose str() is exc.
HandleException(t, exc) ==
    LET j == JobOf(t)
        retries == task[t].retries
    IN  /\ job' = [job EXCEPT
                      ![j].retry_count = retries + 1,
                      ![j].error_message = exc,
                      ![j].status = IF ShouldRetry(retries)
                                    THEN "retrying" ELSE "failed"]
        /\ task' = [task EXCEPT
                      ![t].pc = AfterFailure(retries),
                      ![t].retries = IF AfterFailure(retries) = "retry"
                                     THEN retries + 1 ELSE retries,
                      ![t].delays = IF AfterFailure(retries) = "retry"
                                    THEN Append(@, Countdown(retries)) ELSE @,
                      ![t].failed = @ + 1,
                      ![t].exc = exc,
                      ![t].lost = task[t].accumulated_result]
        /\ UNCHANGED <<doc, schema>>

\* tasks.py 42-50: the chunk counters are saved before the extraction starts.
BeginChunked(t) ==
    /\ task[t].pc = "started"
    /\ use_chunking(t)
    /\ job' = [job EXCEPT ![JobOf(t)].is_chunked = TRUE,
                          ![JobOf(t)].total_chunks = doc[JobOf(t)].nchunks,
                          ![JobOf(t)].processed_chunks = 0]
    /\ task' = [task EXCEPT ![t].pc = "chunked"]
    /\ UNCHANGED <<doc, schema>>

\* An extraction that resumes from the snapshot the job row holds.
EnterChunkLoopAlt(t) ==
    /\ task[t].pc = "chunked"
    /\ SchemaRaises(SchemaOf(t)) = ""
    /\ task' = [task EXCEPT
                  ![t].accumulated_result = job[JobOf(t)].chunk_results,
                  ![t].i = 0,
                  ![t].result = EmptyMap,
                  ![t].pc = IF doc[JobOf(t)].nchunks > 0
                            THEN "loop" ELSE "returned"]
    /\ UNCHANGED <<job, doc, schema>>

\* services.py 288-297: process_document_chunked up to the loop.
EnterChunkLoop(t) ==
    /\ task[t].pc = "chunked"
    /\ SchemaRaises(SchemaOf(t)) = ""
    /\ task' = [task EXCEPT
                  ![t].accumulated_result = Null,
                  ![t].i = 0,
                  ![t].result = EmptyMap,
                  ![t].pc = IF doc[JobOf(t)].nchunks > 0
                            THEN "loop" ELSE "returned"]
    /\ UNCHANGED <<job, doc, schema>>

\* services.py 140 / 291: the schema translation raises, inside the try of
\* tasks.py 41.
SchemaTranslationFails(t) ==
    /\ \/ task[t].pc = "chunked"
       \/ task[t].pc = "started" /\ ~use_chunking(t)
    /\ SchemaRaises(SchemaOf(t)) # ""
    /\ HandleException(t, SchemaRaises(SchemaOf(t)))

\* A first-chunk prompt for every chunk: the accumulated result is not passed.
ChunkPromptAlt(i, accumulated_result) == [chunk |-> i, previous |-> Null]

\* services.py 300-337: what the LLM call of chunk i is given.  Without an
\* accumulated result (None) the user message is the chunk alone; otherwise
\* it holds the accumulated result and the chunk.
ChunkPrompt(i, accumulated_result) ==
    [chunk |-> i, previous |-> accumulated_result]

\* services.py 297-353: the prompt of chunk i is built and agent.run_sync is
\* called.
IssueChunkCall(t) ==
    /\ task[t].pc = "loop"
    /\ task[t].i < doc[JobOf(t)].nchunks
    /\ task' = [task EXCEPT
                  ![t].pc = "await", ![t].calls = @ + 1,
                  ![t].prompts =
                      Append(@, ChunkPrompt(task[t].i,
                                            task[t].accumulated_result))]
    /\ UNCHANGED <<job, doc, schema>>

\* services.py 356-361: the accumulated result after a chunk.
Accumulate(accumulated_result, new_result) ==
    IF accumulated_result # Null
    THEN _deep_merge(accumulated_result, new_result)
    ELSE new_result

\* A progress callback that stores chunk_idx, not chunk_idx + 1.
ChunkCallReturnsAlt(t, new_result) ==
    LET j == JobOf(t)
        i == task[t].i
        acc == Accumulate(task[t].accumulated_result, new_result)
        last == i + 1 >= doc[j].nchunks
    IN  /\ task[t].pc = "await"
        /\ use_chunking(t)
        /\ job' = [job EXCEPT ![j].processed_chunks = i,
                              ![j].chunk_results = acc]
        /\ task' = [task EXCEPT
                      ![t].accumulated_result = acc,
                      ![t].outputs = Append(@, new_result),
                      ![t].history = Append(@, acc),
                      ![t].progress = Append(@, <<i, doc[j].nchunks>>),
                      ![t].i = i + 1,
                      ![t].result = IF last
                                    THEN (IF Falsy(acc) THEN EmptyMap ELSE acc)
                                    ELSE @,
                      ![t].pc = IF last THEN "returned" ELSE "loop"]
        /\ UNCHANGED <<doc, schema>>

\* services.py 354-373 and tasks.py 52-56: the call of chunk i returned
\* new_result; it is merged and the progress is saved.
ChunkCallReturns(t, new_result) ==
    LET j == JobOf(t)
        i == task[t].i
        acc == Accumulate(task[t].accumulated_result, new_result)
        last == i + 1 >= doc[j].nchunks
    IN  /\ task[t].pc = "await"
        /\ use_chunking(t)
        /\ job' = [job EXCEPT ![j].processed_chunks = i + 1,
                              ![j].chunk_results = acc]
        /\ task' = [task EXCEPT
                      ![t].accumulated_result = acc,
                      ![t].outputs = Append(@, new_result),
                      ![t].history = Append(@, acc),
                      ![t].progress = Append(@, <<i, doc[j].nchunks>>),
                      ![t].i = i + 1,
                      ![t].result = IF last
                                    THEN (IF Falsy(acc) THEN EmptyMap ELSE acc)
                                    ELSE @,
                      ![t].pc = IF last THEN "returned" ELSE "loop"]
        /\ UNCHANGED <<doc, schema>>

\* services.py 138-167: process_document_with_ai up to agent.run_sync.
IssueSingleCall(t) ==
    /\ task[t].pc = "started"
    /\ ~use_chunking(t)
    /\ SchemaRaises(SchemaOf(t)) = ""
    /\ task' = [task EXCEPT ![t].pc = "await", ![t].calls = @ + 1]
    /\ UNCHANGED <<job, doc, schema>>

\* services.py 167-168: the single call returned result.output.
SingleCallReturns(t, output) ==
    /\ task[t].pc = "await"
    /\ ~use_chunking(t)
    /\ task' = [task EXCEPT ![t].result = output, ![t].pc = "returned",
                            ![t].outputs = Append(@, output)]
    /\ UNCHANGED <<job, doc, schema>>

\* agent.run_sync raises (services.py 167 or 353), inside the try of
\* tasks.py 41.
CallFails(t, exc) ==
    /\ task[t].pc = "await"
    /\ HandleException(t, exc)

\* tasks.py 78-97: the result is stored and the job completed.
Complete(t) ==
    /\ task[t].pc = "returned"
    /\ job' = [job EXCEPT ![JobOf(t)].result_data = task[t].result,
                          ![JobOf(t)].status = "completed",
                          ![JobOf(t)].error_message = "",
                          ![JobOf(t)].completed_at = TRUE]
    /\ task' = [task EXCEPT ![t].pc = "done"]
    /\ UNCHANGED <<doc, schema>>

(***************************************************************************)
(* The chunker: chunk_document and _fixed_size_chunk (services.py).  A     *)
(* text is a sequence of characters, a character a string of length one.   *)
(***************************************************************************)
\* Bounds of the model.
MaxTextLen == 5

MaxChunkSize == 3

Alphabet == {"a", "b", " ", "\n"}

Texts == UNION {[1..n -> Alphabet] : n \in 0..MaxTextLen}

\* What \s matches and str.strip() removes.
IsSpace(c) == c \in {" ", "\n"}

\* segment.strip() == ""
StripIsEmpty(s) == \A i \in 1..Len(s) : IsSpace(s[i])

\* Python's s[start:end]: a negative index counts from the end, and both
\* indices are clipped to 0..len(s); s[-n:] for n > 0.
SliceIndex(i, n) == IF i < 0 THEN Max(i + n, 0) ELSE Min(i, n)

Slice(s, start, end) ==
    SubSeq(s, SliceIndex(start, Len(s)) + 1, SliceIndex(end, Len(s)))

LastChars(s, n) == SubSeq(s, Max(1, Len(s) - n + 1), Len(s))

RECURSIVE Join(_)
Join(strings) ==
    IF strings = <<>> THEN <<>> ELSE Head(strings) \o Join(Tail(strings))

\* The match of \n\s*\n that starts at position i (1-based) ends at the last
\* "\n" of the whitespace run that follows i (\s* is greedy); 0 when the
\* pattern does not match at i.
MatchEnd(s, i) ==
    LET ends == {j \in (i + 1)..Len(s) :
                    /\ s[j] = "\n"
                    /\ \A m \in (i + 1)..(j - 1) : IsSpace(s[m])}
    IN  IF s[i] = "\n" /\ ends # {}
        THEN CHOOSE j \in ends : \A m \in ends : m <= j
        ELSE 0

\* re.split(r"(\n\s*\n)", s) from position p on: the pieces between the
\* leftmost matches, each followed by the separator matched.
RECURSIVE ReSplit(_, _)
ReSplit(s, p) ==
    LET starts == {i \in p..Len(s) : MatchEnd(s, i) # 0}
    IN  IF starts = {} THEN <<SubSeq(s, p, Len(s))>>
        ELSE LET i == CHOOSE m \in starts : \A n \in starts : m <= n
             IN  <<SubSeq(s, p, i - 1), SubSeq(s, i, MatchEnd(s, i))>>
                     \o ReSplit(s, MatchEnd(s, i) + 1)

\* services.py 199-209: the paragraphs rebuilt from the segments.
RECURSIVE RebuildParagraphs(_, _, _)
RebuildParagraphs(segments, current, paras) ==
    IF segments = <<>>
    THEN IF ~StripIsEmpty(current) THEN Append(paras, current) ELSE paras
    ELSE LET cur == current \o Head(segments)
         IN  IF StripIsEmpty(Head(segments))
             THEN RebuildParagraphs(
                      Tail(segments), <<>>,
                      IF ~StripIsEmpty(cur) THEN Append(paras, cur) ELSE paras)
             ELSE RebuildParagraphs(Tail(segments), cur, paras)

Paragraphs(s) == RebuildParagraphs(ReSplit(s, 1), <<>>, <<>>)

NoFrame == [text |-> <<>>, start |-> 0, chunks |-> <<>>]

\* services.py 196-217: split, rebuild the paragraphs; without a paragraph
\* the whole text goes to _fixed_size_chunk.
SplitParagraphs ==
    /\ cpc = "start"
    /\ paragraphs' = Paragraphs(text)
    /\ IF paragraphs' = <<>>
       THEN /\ cpc' = "fixed_text"
            /\ fs' = [text |-> text, start |-> 0, chunks |-> <<>>]
       ELSE /\ cpc' = "pack"
            /\ fs' = fs
    /\ pidx' = 1
    /\ chunks' = <<>>
    /\ current_chunk' = <<>>
    /\ current_size' = 0
    /\ UNCHANGED <<text, max_chunk_size, overlap>>

\* services.py 238: the text a new chunk is seeded with.
OverlapText(closed) == IF overlap > 0 THEN LastChars(closed, overlap) ELSE <<>>

\* services.py 219-243: one iteration of the loop over the paragraphs.
PackParagraph ==
    /\ cpc = "pack"
    /\ pidx <= Len(paragraphs)
    /\ LET para == paragraphs[pidx]
           para_size == Len(para)
       IN  IF para_size > max_chunk_size
           THEN /\ chunks' = IF current_chunk # <<>>
                             THEN Append(chunks, Join(current_chunk))
                             ELSE chunks
                /\ current_chunk' = <<>>
                /\ current_size' = IF current_chunk # <<>> THEN 0
                                   ELSE current_size
                /\ fs' = [text |-> para, start |-> 0, chunks |-> <<>>]
                /\ cpc' = "fixed_para"
           ELSE IF current_size + para_size > max_chunk_size
                   /\ current_chunk # <<>>
           THEN LET overlap_text == OverlapText(Join(current_chunk))
                IN  /\ chunks' = Append(chunks, Join(current_chunk))
                    /\ current_chunk' = IF overlap_text # <<>>
                                        THEN <<overlap_text, para>>
                                        ELSE <<para>>
                    /\ current_size' = Len(overlap_text) + para_size
                    /\ UNCHANGED <<fs, cpc>>
           ELSE /\ current_chunk' = Append(current_chunk, para)
                /\ current_size' = current_size + para_size
                /\ UNCHANGED <<chunks, fs, cpc>>
    /\ pidx' = pidx + 1
    /\ UNCHANGED <<text, max_chunk_size, overlap, paragraphs>>

\* services.py 261: the start of the next window.
NextStart(start, end) == IF overlap > 0 THEN end - overlap ELSE end

\* The model follows the loop of _fixed_size_chunk for at most MaxWindows
\* iterations: more than a loop whose start advances can make on a text of
\* MaxTextLen characters.
MaxWindows == MaxTextLen + 1

\* services.py 258-261: one iteration of the loop of _fixed_size_chunk.
FixedSizeStep ==
    /\ cpc \in {"fixed_text", "fixed_para"}
    /\ fs.start < Len(fs.text)
    /\ Len(fs.chunks) < MaxWindows
    /\ LET end == fs.start + max_chunk_size
       IN  fs' = [fs EXCEPT
                     !.chunks = Append(@, Slice(fs.text, fs.start, end)),
                     !.start = NextStart(fs.start, end)]
    /\ UNCHANGED <<text, max_chunk_size, overlap, cpc, paragraphs, chunks,
                   current_chunk, current_size, pidx>>

\* services.py 262, and 213 or 231-232: _fixed_size_chunk returns; its chunks
\* are the result (no paragraph) or extend the chunks (oversized paragraph).
FixedSizeReturn ==
    /\ cpc \in {"fixed_text", "fixed_para"}
    /\ ~(fs.start < Len(fs.text))
    /\ IF cpc = "fixed_text"
       THEN chunks' = fs.chunks /\ cpc' = "done"
       ELSE chunks' = chunks \o fs.chunks /\ cpc' = "pack"
    /\ fs' = NoFrame
    /\ UNCHANGED <<text, max_chunk_size, overlap, paragraphs, current_chunk,
                   current_size, pidx>>

\* services.py 245-251: the last chunk is flushed and chunks returned.
FinishChunks ==
    /\ cpc = "pack"
    /\ pidx > Len(paragraphs)
    /\ chunks' = IF current_chunk # <<>>
                 THEN Append(chunks, Join(current_chunk)) ELSE chunks
    /\ cpc' = "done"
    /\ UNCHANGED <<text, max_chunk_size, overlap, paragraphs, current_chunk,
                   current_size, pidx, fs>>

\* No call of chunk_document is under way (Spec, SpecAccum).
ChunkIdle ==
    /\ text = <<>> /\ max_chunk_size = 1 /\ overlap = 0 /\ cpc = "idle"
    /\ paragraphs = <<>> /\ chunks = <<>> /\ current_chunk = <<>>
    /\ current_size = 0 /\ pidx = 0
    /\ fs = NoFrame

\* No call of _deep_merge is under way (Spec, SpecChunk, SpecAccum).
NoMergeCall == [pc |-> "idle", base |-> Null, update |-> Null, third |-> Null,
                merged |-> Null, merged3 |-> Null]

MergeIdle == merge_call = NoMergeCall

\* models.py 141-154: a SchemaSuggestion row as the views create it.
NewSuggestion ==
    [status |-> "pending", suggested_name |-> "", suggested_description |-> "",
     suggested_schema |-> Null, llm_provider |-> "openai",
     error_message |-> "", celery_task_id |-> "", completed_at |-> FALSE]

\* A suggest_schema_task message as .delay(suggestion.id) sends it; delays,
\* failed and exc record the countdowns of the retries scheduled so far, the
\* number of failed attempts and the last exception.
NewSuggestTask ==
    [pc |-> "queued", retries |-> 0, delays |-> <<>>, failed |-> 0, exc |-> ""]

\* No schema suggestion and no schema translation is under way.
NoTranslation == [pc |-> "idle", schema_definition |-> [fields |-> <<>>],
                  json_schema |-> [type |-> "none"]]

SuggestIdle ==
    /\ suggestion = NewSuggestion
    /\ stask = [NewSuggestTask EXCEPT !.pc = "none"]

TranslationIdle == translation = NoTranslation

OthersIdle == MergeIdle /\ SuggestIdle /\ TranslationIdle

Init ==
    /\ job = [j \in Jobs |-> NewJob]
    /\ task = [t \in Tasks |-> NewTask("j1")]
    /\ doc \in [Jobs -> Documents]
    /\ schema \in [Jobs -> 1..Len(SchemaDefinitions)]
    /\ ChunkIdle
    /\ OthersIdle

Next ==
    \E t \in Tasks :
        \/ TaskStart(t) /\ UNCHANGED notJobVars
        \/ BeginChunked(t) /\ UNCHANGED notJobVars
        \/ EnterChunkLoop(t) /\ UNCHANGED notJobVars
        \/ SchemaTranslationFails(t) /\ UNCHANGED notJobVars
        \/ IssueChunkCall(t) /\ UNCHANGED notJobVars
        \/ \E out \in SmallOutputs :
               ChunkCallReturns(t, out) /\ UNCHANGED notJobVars
        \/ IssueSingleCall(t) /\ UNCHANGED notJobVars
        \/ \E out \in SmallOutputs :
               SingleCallReturns(t, out) /\ UNCHANGED notJobVars
        \/ \E exc \in LLMErrors : CallFails(t, exc) /\ UNCHANGED notJobVars
        \/ Complete(t) /\ UNCHANGED notJobVars

Spec == Init /\ [][Next]_vars

\* No processing task is under way (SpecChunk).
JobIdle ==
    /\ job = [j \in Jobs |-> NewJob]
    /\ task = [t \in Tasks |-> [NewTask("j1") EXCEPT !.pc = "none"]]
    /\ doc = [j \in Jobs |-> [len |-> 0, nchunks |-> 0]]
    /\ schema = [j \in Jobs |-> 1]

\* chunk_document(text, max_chunk_size, overlap) is called with
\* 0 <= overlap < max_chunk_size.
InitChunk ==
    /\ JobIdle
    /\ text \in Texts
    /\ max_chunk_size \in 1..MaxChunkSize
    /\ overlap \in 0..(max_chunk_size - 1)
    /\ cpc = "start"
    /\ paragraphs = <<>> /\ chunks = <<>> /\ current_chunk = <<>>
    /\ current_size = 0 /\ pidx = 0
    /\ fs = NoFrame
    /\ OthersIdle

NextChunk ==
    \/ SplitParagraphs /\ UNCHANGED notChunkVars
    \/ PackParagraph /\ UNCHANGED notChunkVars
    \/ FixedSizeStep /\ UNCHANGED notChunkVars
    \/ FixedSizeReturn /\ UNCHANGED notChunkVars
    \/ FinishChunks /\ UNCHANGED notChunkVars

SpecChunk == InitChunk /\ [][NextChunk]_vars

\* chunk_document called with an overlap that is not below max_chunk_size.
InitChunkAny ==
    /\ JobIdle
    /\ text \in Texts
    /\ max_chunk_size \in 1..MaxChunkSize
    /\ overlap \in max_chunk_size..(MaxChunkSize + 1)
    /\ cpc = "start"
    /\ paragraphs = <<>> /\ chunks = <<>> /\ current_chunk = <<>>
    /\ current_size = 0 /\ pidx = 0
    /\ fs = NoFrame
    /\ OthersIdle

SpecChunkAny == InitChunkAny /\ [][NextChunk]_vars

\* The values an LLM output may hold under a key.
Leaves ==
    { Null, Str(""), Str("a"), Str("b"), Num(0),
      List(<<Str("a"), Str("b")>>),
      List(<<Str("b"), Str("c"), Str("b")>>),
      List(<< Map(<< <<"w", Num(1)>>, <<"z", Str("a")>> >>) >>),
      List(<< Map(<< <<"z", Str("a")>>, <<"w", Num(1)>> >>), Num(0) >>),
      Map(<< <<"z", Str("a")>> >>),
      Map(<< <<"w", Null>>, <<"z", List(<<Num(1)>>)>> >>) }

\* The outputs an LLM call returns in SpecAccum: mappings over the keys x
\* and y, in either order.
RichOutputs ==
    {EmptyMap}
        \cup {Map(<< <<"x", v>> >>) : v \in Leaves}
        \cup {Map(<< <<"y", Str("b")>>, <<"x", v>> >>) :
                 v \in {Null, Str("b"), Map(<< <<"z", Str("a")>> >>),
                        List(<<Str("b"), Str("c"), Str("b")>>)}}
        \cup {Map(<< <<"x", Str("a")>>, <<"y", Num(0)>> >>)}

\* A document just long enough to be chunked, with a well-formed schema.
InitAccum ==
    /\ job = [j \in Jobs |-> NewJob]
    /\ task = [t \in Tasks |-> NewTask("j1")]
    /\ doc \in [Jobs -> {d \in Documents : d.len = CHUNK_THRESHOLD + 1}]
    /\ schema = [j \in Jobs |-> 1]
    /\ ChunkIdle
    /\ OthersIdle

NextAccum ==
    \E t \in Tasks :
        \/ TaskStart(t) /\ UNCHANGED notJobVars
        \/ BeginChunked(t) /\ UNCHANGED notJobVars
        \/ EnterChunkLoop(t) /\ UNCHANGED notJobVars
        \/ IssueChunkCall(t) /\ UNCHANGED notJobVars
        \/ \E out \in RichOutputs :
               ChunkCallReturns(t, out) /\ UNCHANGED notJobVars
        \/ Complete(t) /\ UNCHANGED notJobVars

SpecAccum == InitAccum /\ [][NextAccum]_vars

(***************************************************************************)
(* The processing job under the worker's scheduling.  The worker runs a    *)
(* queued task, an LLM call returns or raises, a scheduled retry fires:    *)
(* whenever a step of Next is possible, one is taken.  The worker also     *)
(* enforces the hard time limit of config/settings.py on every execution.  *)
(***************************************************************************)
\* settings.py 121: CELERY_TASK_TIME_LIMIT = 600.  An execution that is still
\* in an LLM call when its ten minutes are over is killed by the worker: the
\* process running the task is terminated, so neither the except block of
\* tasks.py 99-139 nor any later line runs, and the job row stays as the
\* execution last saved it.
TimeLimitExceeded(t) ==
    /\ task[t].pc = "await"
    /\ task' = [task EXCEPT ![t].pc = "killed"]
    /\ UNCHANGED <<job, doc, schema>>

NextLive ==
    \/ Next
    \/ \E t \in Tasks : TimeLimitExceeded(t) /\ UNCHANGED notJobVars

SpecLive == Init /\ [][NextLive]_vars /\ WF_vars(Next)

(***************************************************************************)
(* The processing job with the external reset: job_retry (views.py) sends  *)
(* a second task for the job while the first one may be queued, running,   *)
(* waiting for a retry or finished.                                        *)
(***************************************************************************)
\* The task messages of the job: the one sent when the job was created and
\* the one job_retry sends.
RetryTasks == {"t1", "t2"}

\* The documents and LLM outputs of this specification.
RetryDocuments ==
    {d \in Documents : d.len \in {10000, CHUNK_THRESHOLD + 1} /\ d.nchunks <= 2}

RetryOutputs == {Map(<< <<"x", List(<<Str("a"), Str("b")>>)>> >>)}

RetryErrors == {"rate limit"}

\* A reset that clears the whole row.
job_retryAlt(j, t) ==
    /\ task[t].pc = "none"
    /\ job' = [job EXCEPT ![j] = NewJob]
    /\ task' = [task EXCEPT ![t] = NewTask(j)]
    /\ UNCHANGED <<doc, schema>>

\* views.py 413-421: the row's status, error_message and retry_count are
\* saved and a new process_document_task message, t, is sent.
job_retry(j, t) ==
    /\ task[t].pc = "none"
    /\ job' = [job EXCEPT ![j].status = "pending",
                          ![j].error_message = "",
                          ![j].retry_count = 0]
    /\ task' = [task EXCEPT ![t] = NewTask(j)]
    /\ UNCHANGED <<doc, schema>>

InitRetry ==
    /\ job = [j \in Jobs |-> NewJob]
    /\ task = [t \in RetryTasks |->
                  IF t = "t1" THEN NewTask("j1")
                  ELSE [NewTask("j1") EXCEPT !.pc = "none"]]
    /\ doc \in [Jobs -> RetryDocuments]
    /\ schema = [j \in Jobs |-> 1]
    /\ ChunkIdle
    /\ OthersIdle

NextRetry ==
    \E t \in RetryTasks :
        \/ TaskStart(t) /\ UNCHANGED notJobVars
        \/ BeginChunked(t) /\ UNCHANGED notJobVars
        \/ EnterChunkLoop(t) /\ UNCHANGED notJobVars
        \/ IssueChunkCall(t) /\ UNCHANGED notJobVars
        \/ \E out \in RetryOutputs :
               ChunkCallReturns(t, out) /\ UNCHANGED notJobVars
        \/ IssueSingleCall(t) /\ UNCHANGED notJobVars
        \/ \E out \in RetryOutputs :
               SingleCallReturns(t, out) /\ UNCHANGED notJobVars
        \/ \E exc \in RetryErrors : CallFails(t, exc) /\ UNCHANGED notJobVars
        \/ Complete(t) /\ UNCHANGED notJobVars
        \/ job_retry(JobOf(t), t) /\ UNCHANGED notJobVars

SpecRetry == InitRetry /\ [][NextRetry]_vars

(***************************************************************************)
(* A batch: process_batch_task sends one process_document_task per job id, *)
(* and the worker runs the tasks in any interleaving.                      *)
(***************************************************************************)
\* The argument of process_batch_task and the ids of the messages its loop
\* sends, in the order of the loop.
job_ids == <<"j1", "j2">>

BatchTaskIds == <<"t1", "t2">>

BatchJobs == {job_ids[k] : k \in 1..Len(job_ids)}

BatchTasks == {BatchTaskIds[k] : k \in 1..Len(BatchTaskIds)}

\* A loop that sends every message for the first job id.
BatchDispatchAlt(k) ==
    /\ task[BatchTaskIds[k]].pc = "none"
    /\ \A n \in 1..(k - 1) : task[BatchTaskIds[n]].pc # "none"
    /\ task' = [task EXCEPT ![BatchTaskIds[k]] = NewTask(job_ids[1])]
    /\ UNCHANGED <<job, doc, schema>>

\* tasks.py 216-217: iteration k of the loop sends the task of job_ids[k].
BatchDispatch(k) ==
    /\ task[BatchTaskIds[k]].pc = "none"
    /\ \A n \in 1..(k - 1) : task[BatchTaskIds[n]].pc # "none"
    /\ task' = [task EXCEPT ![BatchTaskIds[k]] = NewTask(job_ids[k])]
    /\ UNCHANGED <<job, doc, schema>>

\* A step of the execution of task t.
BatchTaskStep(t) ==
    \/ TaskStart(t) /\ UNCHANGED notJobVars
    \/ BeginChunked(t) /\ UNCHANGED notJobVars
    \/ EnterChunkLoop(t) /\ UNCHANGED notJobVars
    \/ IssueChunkCall(t) /\ UNCHANGED notJobVars
    \/ \E out \in RetryOutputs :
           ChunkCallReturns(t, out) /\ UNCHANGED notJobVars
    \/ IssueSingleCall(t) /\ UNCHANGED notJobVars
    \/ \E out \in RetryOutputs :
           SingleCallReturns(t, out) /\ UNCHANGED notJobVars
    \/ \E exc \in RetryErrors : CallFails(t, exc) /\ UNCHANGED notJobVars
    \/ Complete(t) /\ UNCHANGED notJobVars

\* views.py 296-315: the jobs of the batch are created pending, then
\* process_batch_task is sent.
InitBatch ==
    /\ job = [j \in BatchJobs |-> NewJob]
    /\ task = [t \in BatchTasks |-> [NewTask("j1") EXCEPT !.pc = "none"]]
    /\ doc \in [BatchJobs -> {d \in RetryDocuments : d.nchunks = 1}]
    /\ schema = [j \in BatchJobs |-> 1]
    /\ ChunkIdle
    /\ OthersIdle

NextBatch ==
    \/ \E k \in 1..Len(job_ids) : BatchDispatch(k) /\ UNCHANGED notJobVars
    \/ \E t \in BatchTasks : BatchTaskStep(t)
    \/ \E t \in BatchTasks : TimeLimitExceeded(t) /\ UNCHANGED notJobVars

\* The loop of process_batch_task runs on, and the worker runs every task
\* that is sent: its calls return or raise and its retries fire.
SpecBatch ==
    /\ InitBatch
    /\ [][NextBatch]_vars
    /\ WF_vars(\E k \in 1..Len(job_ids) : BatchDispatch(k) /\ UNCHANGED notJobVars)
    /\ \A t \in BatchTasks : WF_vars(BatchTaskStep(t))

(***************************************************************************)
(* The schema translation on its own: schema_definition_to_json_schema     *)
(* applied to well-formed field trees.                                     *)
(***************************************************************************)
\* Bound of the model: the number of children of a nested node.
MaxFields == 2

FieldNames == {"a", "b", "c"}

\* Scalar fields: marked required, marked not required, or not marked.
LeafFields ==
    UNION {{[name |-> n, type |-> "string"],
            [name |-> n, type |-> "integer", required |-> TRUE],
            [name |-> n, type |-> "boolean", required |-> FALSE]} :
           n \in FieldNames}

\* The lists of at most MaxFields scalar fields with different names.
LeafLists ==
    UNION {{fl \in [1..n -> LeafFields] :
               \A i, k \in 1..n : i # k => fl[i].name # fl[k].name} :
           n \in 0..MaxFields}

\* Object fields and array fields over a list of scalar fields.
NestedFields ==
    UNION {{[name |-> "rows", type |-> "array",
             items |-> [type |-> "object", fields |-> fl]],
            [name |-> "rows", type |-> "array", required |-> TRUE,
             description |-> "the rows",
             items |-> [type |-> "object", fields |-> fl]],
            [name |-> "head", type |-> "object", fields |-> fl],
            [name |-> "head", type |-> "object", required |-> TRUE,
             fields |-> fl]} :
           fl \in LeafLists}

\* Fields with a second level of nesting, and arrays of scalars.
DeepFields ==
    {[name |-> "doc", type |-> "object", required |-> TRUE,
      fields |-> <<[name |-> "rows", type |-> "array", required |-> TRUE,
                    items |-> [type |-> "object",
                               fields |-> <<[name |-> "id",
                                             type |-> "integer",
                                             required |-> TRUE],
                                            [name |-> "note",
                                             type |-> "string"]>>]],
                   [name |-> "meta", type |-> "object",
                    fields |-> <<[name |-> "k", type |-> "string",
                                  required |-> FALSE],
                                 [name |-> "v", type |-> "number",
                                  required |-> TRUE]>>]>>],
     [name |-> "tags", type |-> "array", items |-> [type |-> "string"]],
     [name |-> "nums", type |-> "array", required |-> TRUE],
     [name |-> "rows", type |-> "array",
      items |-> [type |-> "object",
                 fields |-> <<[name |-> "id", type |-> "integer",
                               required |-> TRUE],
                              [name |-> "note", type |-> "string"]>>]]}

\* The well-formed schema definitions: no field, one field, or a nested
\* field beside a scalar one, in both orders.
SchemaTrees ==
    {[fields |-> fl] :
        fl \in {<<>>}
               \cup {<<f>> : f \in LeafFields \cup NestedFields \cup DeepFields}
               \cup {<<f, g>> : f \in NestedFields \cup DeepFields,
                                g \in LeafFields}
               \cup {<<g, f>> : f \in NestedFields \cup DeepFields,
                                g \in LeafFields}}

\* services.py 30-103: one call of schema_definition_to_json_schema.
Translate ==
    /\ translation.pc = "idle"
    /\ translation' =
           [translation EXCEPT
               !.pc = "done",
               !.json_schema =
                   schema_definition_to_json_schema(
                       translation.schema_definition)]

InitSchema ==
    /\ JobIdle
    /\ ChunkIdle
    /\ MergeIdle
    /\ SuggestIdle
    /\ translation \in {[NoTranslation EXCEPT !.schema_definition = sd] :
                           sd \in SchemaTrees}

NextSchema == Translate /\ UNCHANGED notTranslationVars

SpecSchema == InitSchema /\ [][NextSchema]_vars

(***************************************************************************)
(* The schema suggestion: suggest_schema_task (documents/tasks.py).        *)
(***************************************************************************)
suggest_max_retries == 3

\* The failures suggest_schema_for_document raises (str(exc)).
SuggestErrors == {"rate limit", "timeout", "invalid output"}

\* What suggest_schema_for_document returns: name, description and
\* schema_definition (by the index of the definition).
SuggestResults ==
    { [name |-> "Invoice", description |-> "An invoice", schema_definition |-> 1],
      [name |-> "Suggested Schema", description |-> "", schema_definition |-> 2] }

LlmProviders == {"openai", "anthropic", "google"}

\* A task that also retries after the last retry.
SuggestShouldRetryAlt(retries) == retries <= suggest_max_retries

\* tasks.py 190: the branch the except block takes.
SuggestShouldRetry(retries) == retries < suggest_max_retries

\* tasks.py 194: countdown = min(2**self.request.retries * 30, 300)
SuggestCountdown(retries) == Min(2 ^ retries * 30, 300)

\* tasks.py 150-167: the row is loaded and marked processing, and
\* suggest_schema_for_document is called.  A scheduled retry runs the task
\* again from its first line.
SuggestStart ==
    /\ stask.pc \in {"queued", "retry"}
    /\ suggestion' = [suggestion EXCEPT !.status = "processing",
                                        !.celery_task_id = "s1"]
    /\ stask' = [stask EXCEPT !.pc = "await"]

\* tasks.py 169-187: the call returned result; the suggestion is stored.
SuggestReturns(result) ==
    /\ stask.pc = "await"
    /\ suggestion' = [suggestion EXCEPT
                         !.suggested_name = result.name,
                         !.suggested_description = result.description,
                         !.suggested_schema = Num(result.schema_definition),
                         !.status = "completed",
                         !.error_message = "",
                         !.completed_at = TRUE]
    /\ stask' = [stask EXCEPT !.pc = "done"]

\* tasks.py 189-207: the call raised exc.
SuggestFails(exc) ==
    LET retries == stask.retries
    IN  /\ stask.pc = "await"
        /\ suggestion' = [suggestion EXCEPT
                             !.status = IF SuggestShouldRetry(retries)
                                        THEN "processing" ELSE "failed",
                             !.error_message = exc]
        /\ stask' = [stask EXCEPT
                        !.pc = IF SuggestShouldRetry(retries)
                               THEN "retry" ELSE "done",
                        !.retries = IF SuggestShouldRetry(retries)
                                    THEN retries + 1 ELSE retries,
                        !.delays = IF SuggestShouldRetry(retries)
                                   THEN Append(@, SuggestCountdown(retries))
                                   ELSE @,
                        !.failed = @ + 1,
                        !.exc = exc]

\* views.py 494-501: the row is created and the task sent.
InitSuggest ==
    /\ JobIdle
    /\ ChunkIdle
    /\ MergeIdle
    /\ TranslationIdle
    /\ suggestion \in {[NewSuggestion EXCEPT !.llm_provider = p] :
                           p \in LlmProviders}
    /\ stask = NewSuggestTask

NextSuggest ==
    \/ SuggestStart /\ UNCHANGED notSuggestVars
    \/ \E result \in SuggestResults :
           SuggestReturns(result) /\ UNCHANGED notSuggestVars
    \/ \E exc \in SuggestErrors : SuggestFails(exc) /\ UNCHANGED notSuggestVars

SpecSuggest == InitSuggest /\ [][NextSuggest]_vars

(***************************************************************************)
(* _deep_merge as a function of its arguments: a call with arguments drawn *)
(* from a bounded set of structured values, and for two mappings a second  *)
(* call that merges a third mapping into the result of the first.          *)
(***************************************************************************)
\* Bound of the model: the longest list among the arguments.
MaxListLen == 2

\* The scalars other than null.
Scalars ==
    {Str(""), Str("a"), Str("b"), Num(0), Num(1), Bool(FALSE), Bool(TRUE)}

\* The elements of the lists: strings, and one mapping written in both key
\* orders.
ListItems ==
    { Str("a"), Str("b"), Str("c"),
      Map(<< <<"w", Num(1)>>, <<"z", Str("a")>> >>),
      Map(<< <<"z", Str("a")>>, <<"w", Num(1)>> >>) }

\* The lists: every list of at most MaxListLen elements, and lists that hold
\* 1 and true, which Python's == takes for equal and json.dumps does not,
\* and a nested list.
Lists ==
    {List(s) : s \in UNION {[1..n -> ListItems] : n \in 0..MaxListLen}}
        \cup { List(<<Num(1), Bool(TRUE), Num(1)>>),
               List(<<Bool(TRUE), Num(0), Bool(FALSE)>>),
               List(<<List(<<Str("a")>>), Null, List(<<Str("a")>>)>>) }

\* The values under the keys of the mappings.
MapValues ==
    { Null, Str(""), Str("a"), Num(1),
      List(<<Str("a")>>), List(<<Str("b"), Str("a")>>),
      Map(<< <<"z", Str("a")>> >>) }

\* The mappings over the keys x and y, in either order.
Maps ==
    {EmptyMap}
        \cup {Map(<< <<key, v>> >>) : key \in {"x", "y"}, v \in MapValues}
        \cup {Map(<< <<"x", v>>, <<"y", u>> >>) : v \in MapValues, u \in MapValues}
        \cup {Map(<< <<"y", u>>, <<"x", v>> >>) : v \in MapValues, u \in MapValues}

MergeValues == {Null} \cup Scalars \cup Lists \cup Maps

\* The third mapping of a chain of two merges.
ThirdMaps ==
    { Map(<< <<"w", Str("b")>> >>),
      Map(<< <<"y", Null>>, <<"x", List(<<Str("c")>>)>> >>),
      Map(<< <<"x", Map(<< <<"w", Num(0)>> >>)>> >>) }

\* services.py 359: _deep_merge(base, update) is called and returns.
CallDeepMerge ==
    /\ merge_call.pc = "call"
    /\ merge_call' =
           [merge_call EXCEPT
               !.merged = _deep_merge(merge_call.base, merge_call.update),
               !.pc = "returned"]

\* services.py 359, next chunk: the result of the first call is the base of
\* a second call, whose update is a third mapping.
CallDeepMergeAgain ==
    /\ merge_call.pc = "returned"
    /\ IsMap(merge_call.base) /\ IsMap(merge_call.update)
    /\ \E c \in ThirdMaps :
           merge_call' =
               [merge_call EXCEPT
                   !.third = c,
                   !.merged3 = _deep_merge(merge_call.merged, c),
                   !.pc = "returned3"]

InitMerge ==
    /\ JobIdle
    /\ ChunkIdle
    /\ SuggestIdle
    /\ TranslationIdle
    /\ merge_call \in
           {[NoMergeCall EXCEPT !.pc = "call", !.base = b, !.update = u] :
               b \in MergeValues, u \in MergeValues}

NextMerge ==
    \/ CallDeepMerge /\ UNCHANGED notMergeVars
    \/ CallDeepMergeAgain /\ UNCHANGED notMergeVars

SpecMerge == InitMerge /\ [][NextMerge]_vars


(***************************************************************************)
(* Properties of the processing job, checked under Spec.                   *)
(***************************************************************************)
Terminal == {"completed", "failed"}

\* C1: in every reachable state the job's stored retry_count is at most
\* max_retries (10), the attempt that turns the job failed included.
C1_RetryCountWithinMax ==
    \A j \in Jobs : job[j].retry_count <= max_retries

\* C2: when every attempt fails, after the 10th consecutive failed attempt
\* the job is failed, its retry_count is 10, its error_message is the message
\* of the last failure and no further retry is scheduled.
C2_FailedAfterTenFailures ==
    \A t \in Tasks :
        task[t].failed = max_retries =>
            /\ job[JobOf(t)].status = "failed"
            /\ job[JobOf(t)].retry_count = max_retries
            /\ job[JobOf(t)].error_message = task[t].exc
            /\ task[t].pc = "done"

\* C3: within one task chain a job takes at most one terminal status: once
\* its status is completed or failed, no step of the chain changes it.
C3_OneTerminalState ==
    [][\A j \in Jobs :
          job[j].status \in Terminal => job'[j].status = job[j].status]_vars

C3_Witness ==
    \E t \in Tasks :
        /\ task[t].pc = "done"
        /\ task[t].failed = max_retries + 1
        /\ job[JobOf(t)].status = "failed"

\* C8: the delay scheduled before the k-th automatic retry (k = 1..10) is
\* min(2^(k-1) * 30, 600) seconds: 30, 60, 120, 240, 480 and then 600,
\* whatever the failures were.
ExpectedDelays == <<30, 60, 120, 240, 480, 600, 600, 600, 600, 600>>

C8_BackoffDelays ==
    \A t \in Tasks :
        /\ Len(task[t].delays) = task[t].retries
        /\ Len(task[t].delays) <= Len(ExpectedDelays)
        /\ \A n \in 1..Len(task[t].delays) :
              /\ task[t].delays[n] = ExpectedDelays[n]
              /\ task[t].delays[n] = Min(2 ^ (n - 1) * 30, 600)

C8_Witness ==
    \E t \in Tasks :
        /\ Len(task[t].delays) = max_retries
        /\ task[t].pc = "retry"
        /\ job[JobOf(t)].error_message = "timeout"

\* C9: for a document text of length zero the attempt issues no LLM call and
\* returns an empty result, and the job does not end in an error state.
C9_EmptyTextNoLlmCall ==
    \A t \in Tasks :
        (doc[JobOf(t)].len = 0 /\ schema[JobOf(t)] \in WellFormedSchemas) =>
            /\ task[t].calls = 0
            /\ job[JobOf(t)].status \notin {"retrying", "failed"}
            /\ job[JobOf(t)].status = "completed" =>
                   job[JobOf(t)].result_data = EmptyMap

\* C10: a malformed schema definition fails the job before any LLM call and
\* is not retried: the job never shows retrying and no retry is scheduled.
C10_MalformedSchemaNotRetried ==
    \A t \in Tasks :
        SchemaRaises(SchemaOf(t)) # "" =>
            /\ task[t].calls = 0
            /\ job[JobOf(t)].status # "retrying"
            /\ task[t].pc # "retry"

(***************************************************************************)
(* Properties of the chunker, checked under SpecChunk.                     *)
(***************************************************************************)
IsPrefix(p, s) == Len(p) <= Len(s) /\ SubSeq(s, 1, Len(p)) = p

\* The chunks cs, each without some prefix of at most `overlap` characters
\* that repeats the end of its predecessor prev, concatenate to rest.
RECURSIVE Reconstructs(_, _, _)
Reconstructs(cs, prev, rest) ==
    IF cs = <<>> THEN rest = <<>>
    ELSE \E n \in 0..Min(overlap, Min(Len(prev), Len(Head(cs)))) :
             LET piece == SubSeq(Head(cs), n + 1, Len(Head(cs)))
             IN  /\ SubSeq(Head(cs), 1, n) = LastChars(prev, n)
                 /\ IsPrefix(piece, rest)
                 /\ Reconstructs(Tail(cs), Head(cs),
                                 SubSeq(rest, Len(piece) + 1, Len(rest)))

\* C5: for any text and 0 <= overlap < max_chunk_size, the chunks of
\* chunk_document, each without the overlap prefix it repeats from its
\* predecessor, concatenate to exactly the text (so every character position
\* of the text is in a chunk), also when the text begins or ends with blank
\* lines or whitespace.
C5_ChunksReconstructText ==
    cpc = "done" => Reconstructs(chunks, <<>>, text)

\* C6: every chunk chunk_document returns is at most max_chunk_size long.
C6_ChunkWithinMaxSize ==
    cpc = "done" => \A n \in 1..Len(chunks) : Len(chunks[n]) <= max_chunk_size

\* C7: with overlap > 0 the last `overlap` characters of every chunk are a
\* prefix of the chunk that follows it.
C7_OverlapIsPrefixOfNext ==
    (cpc = "done" /\ overlap > 0) =>
        \A n \in 1..(Len(chunks) - 1) :
            IsPrefix(LastChars(chunks[n], overlap), chunks[n + 1])

(***************************************************************************)
(* Properties of the chunk loop, checked under SpecAccum.                  *)
(***************************************************************************)
\* Nothing of a is lost in b: every key of a mapping is a key of b with its
\* value kept, every element of a list is in b's list up to structural
\* equality, a non-empty scalar is unchanged.
RECURSIVE Kept(_, _)
Kept(a, b) ==
    IF IsMap(a)
    THEN /\ IsMap(b)
         /\ \A key \in KeysOf(a) :
                key \in KeysOf(b) /\ Kept(ValueAt(a, key), ValueAt(b, key))
    ELSE IF IsList(a)
    THEN /\ IsList(b)
         /\ \A n \in 1..Len(a.v) :
                \E m \in 1..Len(b.v) :
                    JsonDumpsSorted(b.v[m]) = JsonDumpsSorted(a.v[n])
    ELSE IF InEmptyTuple(a) THEN TRUE
    ELSE b = a

\* C4: in a chunked extraction the accumulated result after chunk i >= 1 is
\* merge(accumulated result after chunk i-1, output of chunk i), and nothing
\* of an accumulated result is lost in any later accumulated result nor in
\* the final result, whatever mappings the LLM returns.  (The accumulated
\* results are compared with the latest one: the earlier pairs are those of
\* the earlier states.)
C4_NoInformationLost ==
    \A t \in Tasks :
        LET h == task[t].history
            outs == task[t].outputs
            n == Len(h)
        IN  /\ Len(outs) = n
            /\ n = 1 => h[1] = outs[1]
            /\ n > 1 => h[n] = _deep_merge(h[n - 1], outs[n])
            /\ \A a \in 1..n :
                  /\ Kept(h[a], h[n])
                  /\ task[t].pc = "returned" => Kept(h[a], task[t].result)
                  /\ job[JobOf(t)].status = "completed" =>
                         Kept(h[a], job[JobOf(t)].result_data)

\* A completed extraction in which an LLM output dropped part of the result
\* accumulated before it.
C4_Witness ==
    \E t \in Tasks :
        /\ job[JobOf(t)].status = "completed"
        /\ Len(task[t].history) >= 3
        /\ ~Kept(task[t].history[1], task[t].outputs[2])
        /\ ~Kept(task[t].history[2], task[t].outputs[3])

(***************************************************************************)
(* Properties of the progress and of the LLM calls of a chunked job,       *)
(* checked under Spec.                                                     *)
(***************************************************************************)
\* C11: the persisted processed_chunks of a job, as an observer polling it
\* sees it while the task chain runs (failed and retried attempts included),
\* never goes backward and never skips a chunk: every step leaves it as it is
\* or adds 1 to it; and when the LLM call of chunk i+1 is issued, the progress
\* of chunk i is already persisted.
C11_ProgressNeverGoesBack ==
    /\ [][\A j \in Jobs :
             job'[j].processed_chunks \in
                 {job[j].processed_chunks, job[j].processed_chunks + 1}]_vars
    /\ [](\A t \in Tasks :
             (task[t].pc = "await" /\ use_chunking(t)) =>
                 job[JobOf(t)].processed_chunks = task[t].i)

\* The accumulated result after the first n of the outputs outs, by the merge.
RECURSIVE MergedOutputs(_, _)
MergedOutputs(outs, n) ==
    IF n = 0 THEN Null
    ELSE IF n = 1 THEN outs[1]
    ELSE _deep_merge(MergedOutputs(outs, n - 1), outs[n])

\* C12: in a chunked attempt over n chunks the LLM calls are issued one after
\* the other for the chunks 0, 1, ..., n-1, one call per chunk: the call of
\* chunk 0 is given the chunk alone, the call of chunk i > 0 is issued only
\* after the output of chunk i-1 was merged and is given that merged
\* accumulated result; a successful attempt has issued exactly n calls.
C12_SequentialChunkCalls ==
    \A t \in Tasks :
        use_chunking(t) =>
            LET p == task[t].prompts
                merges == Len(task[t].history)
            IN  /\ task[t].calls = Len(p)
                /\ Len(task[t].outputs) = merges
                /\ Len(p) \in {merges, merges + 1}
                /\ task[t].pc = "await" => Len(p) = merges + 1
                /\ task[t].pc \in {"loop", "returned"} => Len(p) = merges
                /\ \A m \in 1..Len(p) :
                      /\ p[m].chunk = m - 1
                      /\ p[m].previous =
                             MergedOutputs(task[t].outputs, m - 1)
                /\ (task[t].pc = "returned"
                        \/ job[JobOf(t)].status = "completed") =>
                       Len(p) = doc[JobOf(t)].nchunks

\* A completed attempt over MaxChunks chunks whose last call was given a
\* merged result that differs from the output of the chunk before it.
C12_Witness ==
    \E t \in Tasks :
        /\ job[JobOf(t)].status = "completed"
        /\ use_chunking(t)
        /\ Len(task[t].prompts) = MaxChunks
        /\ task[t].prompts[MaxChunks].previous
               # task[t].outputs[MaxChunks - 1]

\* C13: when the LLM call of chunk k fails in a chunked attempt, the attempt
\* issues no call for a chunk after k and writes no result_data; the retried
\* attempt starts again at chunk 0 without an accumulated result, so its
\* prompts and its result are made of its own LLM outputs alone.
C13_FailedAttemptLeavesNothing ==
    \A t \in Tasks :
        (use_chunking(t) /\ SchemaRaises(SchemaOf(t)) = "") =>
            LET j == JobOf(t)
                p == task[t].prompts
                outs == task[t].outputs
                k == Len(task[t].history)
                own == MergedOutputs(outs, Len(outs))
            IN  /\ job[j].status # "completed" => job[j].result_data = Null
                /\ (task[t].pc = "retry" \/ job[j].status = "failed") =>
                       /\ Len(p) = k + 1
                       /\ \A m \in 1..Len(p) : p[m].chunk <= k
                       /\ task[t].lost = task[t].accumulated_result
                /\ task[t].pc \in {"started", "chunked"} =>
                       /\ p = <<>> /\ outs = <<>>
                       /\ task[t].i = 0
                       /\ task[t].accumulated_result = Null
                /\ p # <<>> => p[1] = [chunk |-> 0, previous |-> Null]
                /\ \A m \in 1..Len(p) :
                      p[m].previous = MergedOutputs(outs, m - 1)
                /\ job[j].status = "completed" =>
                       job[j].result_data =
                           IF Falsy(own) THEN EmptyMap ELSE own

\* A job completed by a retried attempt whose result lacks a part of what the
\* failed attempt had accumulated.
C13_Witness ==
    \E t \in Tasks :
        /\ job[JobOf(t)].status = "completed"
        /\ use_chunking(t)
        /\ task[t].failed >= 1
        /\ task[t].lost # Null
        /\ ~Kept(task[t].lost, job[JobOf(t)].result_data)

\* C14: a document is chunked iff its length is over the threshold (50,000).
\* For a length <= threshold, the threshold itself included, a successful
\* attempt issues exactly one LLM call, without chunking, merge or progress
\* callback, stores the LLM output unchanged as the job's result and leaves
\* is_chunked false; a longer document is processed in chunks.
C14_ChunkedIffOverThreshold ==
    \A t \in Tasks :
        LET j == JobOf(t)
            short == doc[j].len <= CHUNK_THRESHOLD
        IN  /\ job[j].is_chunked => ~short
            /\ (~short /\ (task[t].calls > 0
                              \/ job[j].status = "completed")) =>
                   /\ job[j].is_chunked
                   /\ task[t].prompts # <<>>
            /\ short =>
                   /\ job[j].is_chunked = FALSE
                   /\ job[j].total_chunks = 0
                   /\ job[j].processed_chunks = 0
                   /\ job[j].chunk_results = Null
                   /\ task[t].history = <<>>
                   /\ task[t].prompts = <<>>
                   /\ task[t].calls <= 1
                   /\ job[j].status = "completed" =>
                          /\ task[t].calls = 1
                          /\ Len(task[t].outputs) = 1
                          /\ job[j].result_data = task[t].outputs[1]

\* A completed job whose document is exactly CHUNK_THRESHOLD characters long.
C14_Witness ==
    \E t \in Tasks :
        /\ doc[JobOf(t)].len = CHUNK_THRESHOLD
        /\ job[JobOf(t)].status = "completed"
        /\ job[JobOf(t)].result_data \in SmallOutputs
        /\ task[t].calls = 1

(***************************************************************************)
(* Properties of _deep_merge, checked under SpecMerge.                     *)
(***************************************************************************)
MergeReturned == merge_call.pc \in {"returned", "returned3"}

\* C15: for every structured value x (mapping, list, scalar or null),
\* merge(x, null) = x and merge(null, x) = x, and merge(null, null) = null.
C15_NullIsNeutral ==
    MergeReturned =>
        /\ merge_call.update = Null => merge_call.merged = merge_call.base
        /\ merge_call.base = Null => merge_call.merged = merge_call.update
        /\ (merge_call.base = Null /\ merge_call.update = Null) =>
               merge_call.merged = Null

\* An empty string merged with null.
C15_Witness ==
    /\ MergeReturned
    /\ merge_call.base = Str("")
    /\ merge_call.update = Null
    /\ merge_call.merged = Str("")

\* C16: for two mappings base and update the keys of merge(base, update) are
\* exactly the keys of base and the keys of update; a key of base alone keeps
\* the value of base, a key of update alone gets the value of update, a
\* shared key gets merge(base[k], update[k]); so for three mappings a, b, c
\* the keys of merge(merge(a, b), c) include every key of a, b and c.
C16_MappingKeysUnion ==
    (MergeReturned /\ IsMap(merge_call.base) /\ IsMap(merge_call.update)) =>
        LET b == merge_call.base
            u == merge_call.update
            m == merge_call.merged
        IN  /\ IsMap(m)
            /\ KeysOf(m) = KeysOf(b) \cup KeysOf(u)
            /\ Len(m.v) = Cardinality(KeysOf(m))
            /\ \A key \in KeysOf(b) \ KeysOf(u) :
                  ValueAt(m, key) = ValueAt(b, key)
            /\ \A key \in KeysOf(u) \ KeysOf(b) :
                  ValueAt(m, key) = ValueAt(u, key)
            /\ \A key \in KeysOf(b) \cap KeysOf(u) :
                  ValueAt(m, key) =
                      _deep_merge(ValueAt(b, key), ValueAt(u, key))
            /\ merge_call.pc = "returned3" =>
                  /\ IsMap(merge_call.merged3)
                  /\ KeysOf(b) \cup KeysOf(u) \cup KeysOf(merge_call.third)
                         \subseteq KeysOf(merge_call.merged3)

\* Three mappings with the keys x, then y and x, then w: the shared key x
\* holds a value of neither argument, and the chain holds all three keys.
C16_Witness ==
    /\ merge_call.pc = "returned3"
    /\ KeysOf(merge_call.base) = {"x"}
    /\ KeysOf(merge_call.update) = {"x", "y"}
    /\ ValueAt(merge_call.merged, "x") # ValueAt(merge_call.base, "x")
    /\ ValueAt(merge_call.merged, "x") # ValueAt(merge_call.update, "x")
    /\ KeysOf(merge_call.merged3) = {"w", "x", "y"}

\* Structural equality of two structured values: the same kind and the same
\* content, the entries of a mapping compared whatever their order.
RECURSIVE StructEq(_, _)
StructEq(a, b) ==
    IF a.k # b.k THEN FALSE
    ELSE IF IsMap(a)
    THEN /\ KeysOf(a) = KeysOf(b)
         /\ \A key \in KeysOf(a) : StructEq(ValueAt(a, key), ValueAt(b, key))
    ELSE IF IsList(a)
    THEN /\ Len(a.v) = Len(b.v)
         /\ \A n \in 1..Len(a.v) : StructEq(a.v[n], b.v[n])
    ELSE a.v = b.v

\* The elements of s that are structurally equal to no earlier element of s,
\* in their order.
RECURSIVE FirstOccurrences(_, _)
FirstOccurrences(s, n) ==
    IF n = 0 THEN <<>>
    ELSE IF \E m \in 1..(n - 1) : StructEq(s[m], s[n])
    THEN FirstOccurrences(s, n - 1)
    ELSE Append(FirstOccurrences(s, n - 1), s[n])

\* C17: for two lists base and update, merge(base, update) is base followed
\* by update without the elements structurally equal to an earlier element,
\* the first occurrences kept in their order: every element of base and of
\* update is (up to structural equality) in the result, and the result holds
\* no element twice; [a, b] merged with [b, c] is [a, b, c].
C17_SequenceConcatDedup ==
    (MergeReturned /\ IsList(merge_call.base) /\ IsList(merge_call.update)) =>
        LET all == merge_call.base.v \o merge_call.update.v
            m == merge_call.merged
        IN  /\ IsList(m)
            /\ m.v = FirstOccurrences(all, Len(all))
            /\ \A n \in 1..Len(all) :
                  \E i \in 1..Len(m.v) : StructEq(m.v[i], all[n])
            /\ \A i \in 1..Len(m.v) : \A n \in 1..Len(m.v) :
                  StructEq(m.v[i], m.v[n]) => i = n

\* [a, b] merged with [b, c].
C17_Witness ==
    /\ MergeReturned
    /\ merge_call.base = List(<<Str("a"), Str("b")>>)
    /\ merge_call.update = List(<<Str("b"), Str("c")>>)
    /\ merge_call.merged = List(<<Str("a"), Str("b"), Str("c")>>)

\* The empty sentinels among the scalars: the empty string, zero, false.
EmptySentinels == {Str(""), Num(0), Bool(FALSE)}

RECURSIVE NoDuplicates(_)
NoDuplicates(x) ==
    IF IsMap(x)
    THEN \A n \in 1..Len(x.v) : NoDuplicates(x.v[n][2])
    ELSE IF IsList(x)
    THEN /\ \A n \in 1..Len(x.v) : NoDuplicates(x.v[n])
         /\ \A i \in 1..Len(x.v) : \A n \in 1..Len(x.v) :
                StructEq(x.v[i], x.v[n]) => i = n
    ELSE TRUE

\* C19: merge(x, x) = x for every scalar x and for every mapping or list x
\* that holds no duplicate list elements at any depth.
C19_Idempotent ==
    (MergeReturned /\ merge_call.base = merge_call.update
                   /\ NoDuplicates(merge_call.base)) =>
        merge_call.merged = merge_call.base

\* A mapping that holds a list and a mapping, merged with itself.
C19_Witness ==
    /\ MergeReturned
    /\ merge_call.base =
           Map(<< <<"y", List(<<Str("b"), Str("a")>>)>>,
                  <<"x", Map(<< <<"z", Str("a")>> >>)>> >>)
    /\ merge_call.update = merge_call.base
    /\ merge_call.merged = merge_call.base

(***************************************************************************)
(* Termination of the processing job, checked under SpecLive.              *)
(***************************************************************************)
\* C20: every dispatched processing job eventually reaches the status
\* completed or failed, given that every LLM call eventually returns or
\* fails and every scheduled retry eventually fires; a job whose attempts all
\* fail reaches failed after finitely many attempts.
C20_EventuallyTerminal ==
    \A j \in Jobs : <>(job[j].status \in Terminal)

\* C20, the part the code keeps: a job whose executions are never killed by
\* the time limit reaches completed or failed, after at most max_retries + 1
\* failed attempts.
C20_TerminalUnlessKilled ==
    /\ \A t \in Tasks :
           <>(job[JobOf(t)].status \in Terminal \/ task[t].pc = "killed")
    /\ [](\A t \in Tasks : task[t].failed <= max_retries + 1)

(***************************************************************************)
(* Properties of the external reset, checked under SpecRetry.              *)
(***************************************************************************)
\* C21: job_retry, applied to a job in any status, sets status to pending,
\* retry_count to 0 and error_message to empty and sends one new processing
\* task; it leaves result_data, completed_at, is_chunked, total_chunks,
\* processed_chunks and chunk_results (and the tasks under way) as they are.
C21_JobRetryResets ==
    [][\A t \in RetryTasks :
          (task[t].pc = "none" /\ task'[t].pc # "none") =>
              LET j == JobOf(t)
              IN  /\ job'[j].status = "pending"
                  /\ job'[j].retry_count = 0
                  /\ job'[j].error_message = ""
                  /\ task'[t] = NewTask(j)
                  /\ \A u \in RetryTasks \ {t} : task'[u] = task[u]
                  /\ job'[j].result_data = job[j].result_data
                  /\ job'[j].completed_at = job[j].completed_at
                  /\ job'[j].is_chunked = job[j].is_chunked
                  /\ job'[j].total_chunks = job[j].total_chunks
                  /\ job'[j].processed_chunks = job[j].processed_chunks
                  /\ job'[j].chunk_results = job[j].chunk_results]_vars

\* job_retry was applied to a completed chunked job: the job is pending again
\* with its result and its chunk counters still in the row.
C21_Witness ==
    /\ task["t2"].pc = "queued"
    /\ task["t1"].pc = "done"
    /\ job["j1"].status = "pending"
    /\ job["j1"].result_data # Null
    /\ job["j1"].completed_at
    /\ job["j1"].is_chunked
    /\ job["j1"].processed_chunks = 2
    /\ job["j1"].chunk_results # Null

(***************************************************************************)
(* Properties of the schema suggestion, checked under SpecSuggest.         *)
(***************************************************************************)
SuggestionSteps ==
    { <<"pending", "processing">>, <<"processing", "processing">>,
      <<"processing", "completed">>, <<"processing", "failed">>,
      <<"completed", "completed">>, <<"failed", "failed">>,
      <<"pending", "pending">> }

SuggestionStep(from, to) == <<from, to>> \in SuggestionSteps

\* C22: a schema suggestion's status only follows pending -> processing ->
\* completed or failed, and stays processing while a retry is pending (it is
\* never retrying); a failing suggestion is retried at most 3 times, after
\* 30, 60 and 120 seconds (min(2^k * 30, 300) for k = 0, 1, 2), and becomes
\* failed, with the message of the last error, on the 4th failure in a row.
C22_SuggestionFlow ==
    /\ [][SuggestionStep(suggestion.status, suggestion'.status)]_vars
    /\ [](/\ suggestion.status \in
                 {"pending", "processing", "completed", "failed"}
          /\ stask.pc = "retry" => suggestion.status = "processing"
          /\ stask.retries <= suggest_max_retries
          /\ Len(stask.delays) = stask.retries
          /\ stask.delays = SubSeq(<<30, 60, 120>>, 1, stask.retries)
          /\ \A k \in 0..(stask.retries - 1) :
                stask.delays[k + 1] = Min(2 ^ k * 30, 300)
          /\ suggestion.status = "failed" <=> stask.failed = 4
          /\ suggestion.status = "failed" =>
                 stask.pc = "done" /\ suggestion.error_message = stask.exc
          /\ stask.pc = "retry" => suggestion.error_message = stask.exc)

\* A suggestion failed by its 4th failure, the last one a timeout.
C22_Witness ==
    /\ suggestion.status = "failed"
    /\ stask.failed = 4
    /\ stask.delays = <<30, 60, 120>>
    /\ stask.exc = "timeout"
    /\ suggestion.error_message = "timeout"


(***************************************************************************)
(* Properties of a batch, checked under SpecBatch.                         *)
(***************************************************************************)
\* The tasks that have been sent for job j.
TasksOf(j) == {t \in BatchTasks : task[t].pc # "none" /\ task[t].job = j}

\* A step that changes the execution of task t.
StepOf(t) == task'[t] # task[t]

\* C23: process_batch_task sends exactly one process_document_task per job
\* id of the batch; a step of one job's task (a failure, a backoff wait and
\* the permanent failure included) changes no field of another job and no
\* other task; and every job reaches completed or failed unless its own
\* execution is killed, whatever the other job's task does.
C23_BatchJobsIndependent ==
    /\ [](\A k \in 1..Len(job_ids) :
              /\ Cardinality(TasksOf(job_ids[k])) <= 1
              /\ TasksOf(job_ids[k]) \subseteq {BatchTaskIds[k]})
    /\ <>(\A j \in BatchJobs : Cardinality(TasksOf(j)) = 1)
    /\ [][\A t \in BatchTasks :
              StepOf(t) =>
                  /\ \A u \in BatchTasks \ {t} : task'[u] = task[u]
                  /\ \A j \in BatchJobs \ {task'[t].job} : job'[j] = job[j]]_vars
    /\ \A k \in 1..Len(job_ids) :
           <>(\/ job[job_ids[k]].status \in Terminal
              \/ task[BatchTaskIds[k]].pc = "killed")

\* One job of the batch has failed for good after max_retries + 1 failed
\* attempts and the other one, which failed once itself, is completed.
C23_Witness ==
    /\ job["j1"].status = "failed"
    /\ task["t1"].failed = max_retries + 1
    /\ job["j2"].status = "completed"
    /\ task["t2"].failed >= 1
    /\ task["t2"].job = "j2"


(***************************************************************************)
(* Properties of the schema translation, checked under SpecSchema.         *)
(***************************************************************************)
\* The names of the children marked required, in declaration order.
MarkedRequired(sub_fields) ==
    LET marked == SelectSeq(sub_fields,
                            LAMBDA f : "required" \in DOMAIN f
                                       /\ f.required = TRUE)
    IN  [i \in 1..Len(marked) |-> marked[i].name]

\* The description `object_schema` of a node with children `sub_fields`
\* lists exactly the children marked required (no list when there is none),
\* and so does the description of every node below it.
RECURSIVE RequiredListsRight(_, _)
RequiredListsRight(sub_fields, object_schema) ==
    /\ object_schema.type = "object"
    /\ IF MarkedRequired(sub_fields) = <<>>
       THEN "required" \notin DOMAIN object_schema
       ELSE /\ "required" \in DOMAIN object_schema
            /\ object_schema.required = MarkedRequired(sub_fields)
    /\ Len(object_schema.properties) = Len(sub_fields)
    /\ \A i \in 1..Len(sub_fields) :
           LET field == sub_fields[i]
               field_schema == object_schema.properties[i][2]
           IN  /\ object_schema.properties[i][1] = field.name
               /\ field_schema.type = field.type
               /\ field.type = "object" =>
                      RequiredListsRight(field.fields, field_schema)
               /\ (/\ field.type = "array"
                   /\ "items" \in DOMAIN field
                   /\ field.items.type = "object") =>
                      RequiredListsRight(field.items.fields,
                                         field_schema.items)

\* C24: for every well-formed field tree the translation maps the root, each
\* object node and each array node with object items to a description whose
\* required list holds exactly the names of the children marked required, in
\* declaration order, and that has no required list when no child is marked.
C24_RequiredListsExact ==
    translation.pc = "done" =>
        RequiredListsRight(translation.schema_definition.fields,
                           translation.json_schema)

\* An array field with object items and two sub-fields, one of them required,
\* has been translated: the item description lists that one name.
C24_Witness ==
    /\ translation.pc = "done"
    /\ translation.schema_definition =
           [fields |-> <<[name |-> "rows", type |-> "array",
                          items |-> [type |-> "object",
                                     fields |-> <<[name |-> "id",
                                                   type |-> "integer",
                                                   required |-> TRUE],
                                                  [name |-> "note",
                                                   type |-> "string"]>>]]>>]
    /\ translation.json_schema.properties[1][1] = "rows"
    /\ translation.json_schema.properties[1][2].type = "array"
    /\ translation.json_schema.properties[1][2].items.required = <<"id">>
    /\ "required" \notin DOMAIN translation.json_schema


(***************************************************************************)
(* More properties of the chunker, checked under SpecChunk.                *)
(***************************************************************************)
\* C25: once chunk_document has built the paragraphs, their concatenation in
\* order is exactly the original text: no separator and no whitespace-only
\* segment is dropped.
C25_ParagraphsConcatToText ==
    cpc \notin {"idle", "start"} => Join(paragraphs) = text


\* The loop of _fixed_size_chunk has ended and the function is about to
\* return its windows.
FixedSizeDone ==
    cpc \in {"fixed_text", "fixed_para"} /\ ~(fs.start < Len(fs.text))

\* The start of window j (1-based): s_0 = 0, s_(j+1) = s_j + size - overlap.
WindowStart(j) == (j - 1) * (max_chunk_size - overlap)

\* C26, the part the code keeps: window j is text[s_j : s_j + size], and
\* there is one window for every s_j < len(text).
C26_WindowStarts ==
    FixedSizeDone =>
        /\ \A j \in 1..Len(fs.chunks) :
               /\ WindowStart(j) < Len(fs.text)
               /\ fs.chunks[j] = Slice(fs.text, WindowStart(j),
                                       WindowStart(j) + max_chunk_size)
        /\ WindowStart(Len(fs.chunks) + 1) >= Len(fs.text)

\* C26: the fixed-size fallback returns the windows text[s_j : s_j + size],
\* and every window except the final one has length exactly size.
C26_FixedSizeWindows ==
    FixedSizeDone =>
        /\ \A j \in 1..Len(fs.chunks) :
               fs.chunks[j] = Slice(fs.text, WindowStart(j),
                                    WindowStart(j) + max_chunk_size)
        /\ \A j \in 1..(Len(fs.chunks) - 1) :
               Len(fs.chunks[j]) = max_chunk_size


\* C27: once a job is completed, no step of a processing task writes
\* processing, retrying or failed over it: the status stays completed until
\* job_retry, the only writer of pending, is called again.
C27_CompletedStaysCompleted ==
    [][\A j \in Jobs :
          job[j].status = "completed" =>
              job'[j].status \in {"completed", "pending"}]_vars


\* The kind of a non-null value: a mapping, a sequence or a scalar.
KindOf(x) == IF IsMap(x) THEN "mapping" ELSE IF IsList(x) THEN "sequence"
             ELSE "scalar"

\* C28: when base and update are both non-null and of different kinds (one a
\* mapping, one a sequence, one a scalar), merge returns base unchanged; an
\* empty-string, zero or false base is not replaced by a mapping or a sequence.
C28_KindMismatchKeepsBase ==
    (/\ MergeReturned
     /\ merge_call.base # Null
     /\ merge_call.update # Null
     /\ KindOf(merge_call.base) # KindOf(merge_call.update)) =>
        merge_call.merged = merge_call.base

\* C28, the part the code keeps: a mapping, a sequence or a non-empty scalar
\* base is returned unchanged when the update is of another kind.
C28_NonEmptyBaseKept ==
    (/\ MergeReturned
     /\ merge_call.base # Null
     /\ merge_call.update # Null
     /\ KindOf(merge_call.base) # KindOf(merge_call.update)
     /\ merge_call.base \notin EmptySentinels) =>
        merge_call.merged = merge_call.base


(***************************************************************************)
(* Termination of the chunker, checked under SpecChunkAny.                 *)
(***************************************************************************)
\* A step is an iteration of the loop of _fixed_size_chunk.
FixedSizeIteration ==
    /\ cpc \in {"fixed_text", "fixed_para"}
    /\ cpc' = cpc
    /\ Len(fs'.chunks) = Len(fs.chunks) + 1

\* C29: chunk_document terminates for every max_chunk_size >= 1 and every
\* overlap >= 0, overlap >= max_chunk_size included: in each iteration of the
\* fixed-size slicing loop the window start strictly increases.
C29_WindowStartIncreases ==
    [][FixedSizeIteration => fs'.start > fs.start]_vars


(***************************************************************************)
(* The progress counters of a job processed by one task chain, checked     *)
(* under Spec.                                                             *)
(***************************************************************************)
\* C30: in every reachable state 0 <= processed_chunks <= total_chunks (during
\* an attempt, while retrying and at the start of a retried attempt); the
\* total passed to the progress callback is the job's total_chunks; and when
\* a chunked job is completed, processed_chunks = total_chunks = the number of
\* LLM calls the successful attempt issued.
C30_ProgressWithinTotal ==
    \A t \in Tasks :
        LET j == JobOf(t)
        IN  /\ 0 <= job[j].processed_chunks
            /\ job[j].processed_chunks <= job[j].total_chunks
            /\ \A k \in 1..Len(task[t].progress) :
                   /\ task[t].progress[k][1] = k - 1
                   /\ task[t].progress[k][2] = job[j].total_chunks
            /\ (job[j].status = "completed" /\ job[j].is_chunked) =>
                   /\ job[j].processed_chunks = job[j].total_chunks
                   /\ job[j].total_chunks = task[t].calls
                   /\ Len(task[t].progress) = job[j].total_chunks

\* A chunked job of several chunks is completed by a retried attempt.
C30_Witness ==
    /\ job["j1"].status = "completed"
    /\ job["j1"].is_chunked
    /\ job["j1"].total_chunks >= 2
    /\ job["j1"].processed_chunks = job["j1"].total_chunks
    /\ task["t1"].calls = job["j1"].total_chunks
    /\ task["t1"].failed >= 1

\* A retried attempt has started while the job still shows the progress of
\* the failed attempt.
C30_WitnessRetried ==
    /\ task["t1"].pc = "started"
    /\ task["t1"].retries >= 1
    /\ job["j1"].processed_chunks >= 1
    /\ job["j1"].processed_chunks < job["j1"].total_chunks

=============================================================================
